---- MODULE Spec2Model ----
(***************************************************************************)
(* Model of src/app/tarsier_endpoint.py: the FastAPI shim around Tarsier's *)
(* process_one.  State: the module-level model_state, the temporary        *)
(* directory, and one record of control state per POST /generate request.  *)
(*                                                                         *)
(* Strings are sequences of one-character strings, so that str.replace is  *)
(* computed character by character as Python computes it.                  *)
(*                                                                         *)
(* Requests interleave at their I/O operations (the download, the blocking *)
(* generation call).  A single event loop runs each handler without        *)
(* yielding; the interleavings here include those of several workers       *)
(* sharing one temporary directory.                                        *)
(***************************************************************************)
EXTENDS Integers, Sequences, FiniteSets, TLC

VARIABLES phase, load_result, model_state, fs, pc, request, video_path,
          calls, resp, hist, health

vars == <<phase, load_result, model_state, fs, pc, request, video_path,
          calls, resp, hist, health>>

-----------------------------------------------------------------------------
(* Bounds *)

NumReqs == 2
NumPaths == 2
MaxChunks == 1
MaxFrags == 3

Reqs == 1..NumReqs
Paths == 1..NumPaths

-----------------------------------------------------------------------------
(* Strings *)

VIDEO == <<"<", "v", "i", "d", "e", "o", ">">>
IMAGE == <<"<", "i", "m", "a", "g", "e", ">">>
NL == <<"\n">>
WhatHappens == <<"W", "h", "a", "t", " ", "h", "a", "p", "p", "e", "n", "s", "?">>
DescribeThis == <<"D", "e", "s", "c", "r", "i", "b", "e", " ", "t", "h", "i", "s", ".">>

RECURSIVE Flatten(_)
Flatten(ss) == IF ss = <<>> THEN <<>> ELSE Head(ss) \o Flatten(Tail(ss))

\* s.startswith(m)
StartsWith(s, m) == Len(s) >= Len(m) /\ SubSeq(s, 1, Len(m)) = m

\* s.replace(old, ""): left to right, non-overlapping, a single pass
RECURSIVE Replace(_, _)
Replace(s, old) ==
    IF Len(s) < Len(old) THEN s
    ELSE IF StartsWith(s, old)
         THEN Replace(SubSeq(s, Len(old) + 1, Len(s)), old)
         ELSE <<Head(s)>> \o Replace(Tail(s), old)

\* s.count(m) for a marker that cannot overlap itself
RECURSIVE Count(_, _)
Count(s, m) ==
    IF Len(s) < Len(m) THEN 0
    ELSE IF StartsWith(s, m)
         THEN 1 + Count(SubSeq(s, Len(m) + 1, Len(s)), m)
         ELSE Count(Tail(s), m)

\* the second replace left out
VideoPromptKeepsVideoMarker(instruction) ==
    VIDEO \o NL \o Replace(instruction, IMAGE)

\* line 105: "<video>\n" + instruction.replace("<image>", "").replace("<video>", "")
VideoPrompt(instruction) ==
    VIDEO \o NL \o Replace(Replace(instruction, IMAGE), VIDEO)

\* line 128: prompt = request.instruction
TextPrompt(instruction) == instruction

-----------------------------------------------------------------------------
(* Request bodies *)

Fragments ==
    { VIDEO, IMAGE, <<"<", "v", "i">>, <<"d", "e", "o", ">">>,
      <<"<", "i", "m", "a">>, <<"g", "e", ">">>, NL, <<"x">> }

\* instructions assembled from at most MaxFrags fragments
Instructions ==
    { Flatten(f) : f \in UNION { [1..k -> Fragments] : k \in 0..MaxFrags } }

ScenarioInstruction == VIDEO \o NL \o WhatHappens

\* the instructions of the two scenarios of the request
SomeInstructions == { ScenarioInstruction, DescribeThis }

\* GenerateRequest: instruction and the optional video_url
GenerateRequest(I) == [instruction : I, video_url : BOOLEAN]

NoRequest == [instruction |-> <<>>, video_url |-> FALSE]

-----------------------------------------------------------------------------
(* Exceptions and responses *)

None == "None"
ModelHandle == "model"
ProcessorHandle == "processor"

StatusStr(s) ==
    CASE s = 400 -> "400" [] s = 500 -> "500" [] s = 503 -> "503" [] OTHER -> "200"

NoExc == [kind |-> "none", status_code |-> 0, detail |-> <<>>]
HTTPException(s, d) == [kind |-> "HTTPException", status_code |-> s, detail |-> d]
Exception(msg) == [kind |-> "Exception", status_code |-> 0, detail |-> <<msg>>]

\* str(e): HTTPException renders as "<status_code>: <detail>"
Str(e) ==
    IF e.kind = "HTTPException"
    THEN <<StatusStr(e.status_code), ": ">> \o e.detail
    ELSE e.detail

NoResp == [status |-> 0, detail |-> <<>>, generated_text |-> None]
ErrorResponse(e) == [status |-> e.status_code, detail |-> e.detail, generated_text |-> None]
\* lines 140-143
SuccessResponse(text) == [status |-> 200, detail |-> <<"success">>, generated_text |-> text]

\* lines 144-145: except Exception as e: raise HTTPException(500, str(e))
OuterExcept(e) == HTTPException(500, Str(e))

\* the readiness check left out
ModelReadyUnchecked(ms) == TRUE

\* line 74: the readiness check of generate
ModelReady(ms) == ~(ms.model = None \/ ms.processor = None)

-----------------------------------------------------------------------------
(* The temporary directory *)

NoFile == [size |-> -1, by |-> 0]
File(n, r) == [size |-> n, by |-> r]

\* os.path.exists, os.path.getsize
Exists(p) == fs[p] # NoFile
GetSize(p) == fs[p].size

\* a temporary name chosen without regard to the files that exist
AnyPath == Paths

\* tempfile.NamedTemporaryFile: a name no existing file has (O_EXCL)
FreshPaths == { p \in Paths : fs[p] = NoFile }

NoHist == [download |-> "none", validation |-> "none", generation |-> "none",
           created |-> 0]

-----------------------------------------------------------------------------
Init ==
    /\ phase = "boot"
    /\ load_result = "none"
    /\ model_state = [model |-> None, processor |-> None]
    /\ fs = [p \in Paths |-> NoFile]
    /\ pc = [r \in Reqs |-> "new"]
    /\ request = [r \in Reqs |-> NoRequest]
    /\ video_path = [r \in Reqs |-> 0]
    /\ calls = [r \in Reqs |-> <<>>]
    /\ resp = [r \in Reqs |-> NoResp]
    /\ hist = [r \in Reqs |-> NoHist]
    /\ health = [status |-> 0, model_loaded |-> FALSE, device |-> None]

ReqVars == <<pc, request, video_path, calls, resp, hist>>

-----------------------------------------------------------------------------
(* Startup *)

\* tasks.inference_quick_start.load_model_and_processor: both handles, or a failure
LoadOutcomes == {"ok", "raise"}

\* the failure printed and not re-raised
LoadModelSwallowsFailure ==
    /\ phase = "boot"
    /\ \E out \in LoadOutcomes :
         IF out = "ok"
         THEN /\ model_state' = [model |-> ModelHandle, processor |-> ProcessorHandle]
              /\ load_result' = "ok"
         ELSE /\ model_state' = model_state
              /\ load_result' = "failed"
    /\ phase' = "serving"
    /\ UNCHANGED <<fs, ReqVars, health>>

\* lines 56-70: the startup event; a failure is re-raised and aborts startup
load_model ==
    /\ phase = "boot"
    /\ \E out \in LoadOutcomes :
         IF out = "ok"
         THEN /\ model_state' = [model |-> ModelHandle, processor |-> ProcessorHandle]
              /\ load_result' = "ok"
              /\ phase' = "serving"
         ELSE /\ model_state' = model_state
              /\ load_result' = "failed"
              /\ phase' = "aborted"
    /\ UNCHANGED <<fs, ReqVars, health>>

\* the app object of line 18 served by a host that does not run its startup
\* event (the lifespan protocol off): model_state keeps the None handles of
\* lines 23-29
serve_without_startup ==
    /\ phase = "boot"
    /\ phase' = "serving"
    /\ UNCHANGED <<load_result, model_state, fs, ReqVars, health>>

-----------------------------------------------------------------------------
(* GET /health *)

Device == "cuda:0"

\* model_loaded tested on the holder, which is never None
HealthCheckAlwaysLoaded ==
    /\ phase = "serving"
    /\ health' = [status |-> 200,
                  model_loaded |-> TRUE,
                  device |-> IF model_state.model # None THEN Device ELSE "not loaded"]
    /\ UNCHANGED <<phase, load_result, model_state, fs, ReqVars>>

\* lines 147-153
health_check ==
    /\ phase = "serving"
    /\ health' = [status |-> 200,
                  model_loaded |-> model_state.model # None,
                  device |-> IF model_state.model # None THEN Device ELSE "not loaded"]
    /\ UNCHANGED <<phase, load_result, model_state, fs, ReqVars>>

-----------------------------------------------------------------------------
(* POST /generate *)

\* lines 73-75 and 88: the request arrives, the readiness check, the branch
generate(r, I) ==
    /\ phase = "serving"
    /\ pc[r] = "new"
    /\ \E req \in GenerateRequest(I) :
         /\ request' = [request EXCEPT ![r] = req]
         /\ IF ~ModelReady(model_state)
            THEN /\ resp' = [resp EXCEPT ![r] =
                                ErrorResponse(HTTPException(503, <<"Model not loaded">>))]
                 /\ pc' = [pc EXCEPT ![r] = "done"]
            ELSE /\ resp' = resp
                 /\ pc' = [pc EXCEPT ![r] = IF req.video_url THEN "download" ELSE "text"]
    /\ UNCHANGED <<phase, load_result, model_state, fs, video_path, calls, hist, health>>

\* what requests.get, raise_for_status, NamedTemporaryFile and iter_content can do
DownloadOutcomes ==
    {"connection_error", "http_error", "tmp_error", "stream_error", "ok"}

DownloadFailed(msg) == HTTPException(400, <<"Failed to download video: ", msg>>)

\* the temporary file opened before raise_for_status
DownloadVideoCreatesBeforeStatus(r) ==
    { [outcome |-> out, fs |-> fs, path |-> 0, created |-> 0, exc |-> DownloadFailed(out)] :
        out \in {"connection_error", "tmp_error"} }
    \cup
    { [outcome |-> out, fs |-> [fs EXCEPT ![p] = File(n, r)], path |-> 0,
       created |-> 1, exc |-> DownloadFailed(out)] :
        out \in {"http_error", "stream_error"}, p \in FreshPaths, n \in 0..MaxChunks }
    \cup
    { [outcome |-> "ok", fs |-> [fs EXCEPT ![p] = File(n, r)], path |-> p,
       created |-> 1, exc |-> NoExc] :
        p \in FreshPaths, n \in 0..MaxChunks }

\* lines 39-54: the results of download_video for request r, each with the
\* directory it leaves behind
download_video(r) ==
    { [outcome |-> out, fs |-> fs, path |-> 0, created |-> 0, exc |-> DownloadFailed(out)] :
        out \in {"connection_error", "http_error", "tmp_error"} }
    \cup
    { [outcome |-> "stream_error", fs |-> [fs EXCEPT ![p] = File(n, r)], path |-> 0,
       created |-> 1, exc |-> DownloadFailed("stream_error")] :
        p \in FreshPaths, n \in 0..MaxChunks }
    \cup
    { [outcome |-> "ok", fs |-> [fs EXCEPT ![p] = File(n, r)], path |-> p,
       created |-> 1, exc |-> NoExc] :
        p \in FreshPaths, n \in 0..MaxChunks }

\* line 89, and lines 144-145 when download_video raises
generate_download(r) ==
    /\ pc[r] = "download"
    /\ \E d \in download_video(r) :
         /\ fs' = d.fs
         /\ hist' = [hist EXCEPT ![r].download = d.outcome, ![r].created = @ + d.created]
         /\ IF d.exc = NoExc
            THEN /\ video_path' = [video_path EXCEPT ![r] = d.path]
                 /\ pc' = [pc EXCEPT ![r] = "validate"]
                 /\ resp' = resp
            ELSE /\ video_path' = video_path
                 /\ pc' = [pc EXCEPT ![r] = "done"]
                 /\ resp' = [resp EXCEPT ![r] = ErrorResponse(OuterExcept(d.exc))]
    /\ UNCHANGED <<phase, load_result, model_state, request, calls, health>>

\* the cleanup run only when no exception is pending
FinallyOnSuccessOnly(p, e) ==
    IF e # NoExc THEN [fs |-> fs, exc |-> e]
    ELSE IF Exists(p)
    THEN [fs |-> [fs EXCEPT ![p] = NoFile], exc |-> e]
    ELSE [fs |-> fs, exc |-> Exception("FileNotFoundError")]

\* lines 121-124: the finally block, entered with the pending exception e;
\* os.unlink of a missing file raises, and that exception replaces e
Finally(p, e) ==
    IF Exists(p)
    THEN [fs |-> [fs EXCEPT ![p] = NoFile], exc |-> e]
    ELSE [fs |-> fs, exc |-> Exception("FileNotFoundError")]

\* lines 140-145: the response of a request that leaves the outer try with e pending
Respond(e, text) ==
    IF e = NoExc THEN SuccessResponse(text) ELSE ErrorResponse(OuterExcept(e))

\* lines 94-100: the validation of the downloaded file
ValidationError(p) ==
    IF ~Exists(p) THEN HTTPException(400, <<"Video file not created">>)
    ELSE IF GetSize(p) = 0 THEN HTTPException(400, <<"Video file is empty">>)
    ELSE NoExc

ValidationKind(p) ==
    IF ~Exists(p) THEN "missing" ELSE IF GetSize(p) = 0 THEN "empty" ELSE "ok"

\* lines 92-114: validation, then either the finally block and the error
\* response, or the prompt and the start of the generation call
generate_validate(r) ==
    /\ pc[r] = "validate"
    /\ LET p == video_path[r]
           e == ValidationError(p)
           fin == Finally(p, e)
       IN /\ hist' = [hist EXCEPT ![r].validation = ValidationKind(p)]
          /\ IF e = NoExc
             THEN /\ calls' = [calls EXCEPT ![r] = Append(@,
                                 [prompt |-> VideoPrompt(request[r].instruction),
                                  video_file |-> p])]
                  /\ pc' = [pc EXCEPT ![r] = "generating"]
                  /\ UNCHANGED <<fs, resp>>
             ELSE /\ fs' = fin.fs
                  /\ resp' = [resp EXCEPT ![r] = Respond(fin.exc, None)]
                  /\ pc' = [pc EXCEPT ![r] = "done"]
                  /\ calls' = calls
    /\ UNCHANGED <<phase, load_result, model_state, request, video_path, health>>

\* tasks.inference_quick_start.process_one: generated text, or a failure
ProcessOutcomes == {"ok", "raise"}
LibraryOutput == "library output"
GenerationFailure == "generation failure"

\* lines 118-120 and 136-138: except Exception as e: raise HTTPException(500, str(e))
InnerExcept(out) ==
    IF out = "raise" THEN HTTPException(500, Str(Exception(GenerationFailure))) ELSE NoExc

\* lines 108-124 and 140-145: the generation call returns or raises, the
\* finally block runs, the response is produced
generate_video_return(r) ==
    /\ pc[r] = "generating"
    /\ \E out \in ProcessOutcomes :
         LET fin == Finally(video_path[r], InnerExcept(out))
         IN /\ fs' = fin.fs
            /\ resp' = [resp EXCEPT ![r] = Respond(fin.exc, LibraryOutput)]
            /\ hist' = [hist EXCEPT ![r].generation = out]
    /\ pc' = [pc EXCEPT ![r] = "done"]
    /\ UNCHANGED <<phase, load_result, model_state, request, video_path, calls, health>>

\* lines 125-145: the text-only branch
generate_text(r) ==
    /\ pc[r] = "text"
    /\ calls' = [calls EXCEPT ![r] = Append(@,
                    [prompt |-> TextPrompt(request[r].instruction), video_file |-> 0])]
    /\ \E out \in ProcessOutcomes :
         /\ resp' = [resp EXCEPT ![r] = Respond(InnerExcept(out), LibraryOutput)]
         /\ hist' = [hist EXCEPT ![r].generation = out]
    /\ pc' = [pc EXCEPT ![r] = "done"]
    /\ UNCHANGED <<phase, load_result, model_state, fs, request, video_path, health>>

-----------------------------------------------------------------------------
Step(R, I) ==
    \/ load_model
    \/ serve_without_startup
    \/ health_check
    \/ \E r \in R : generate(r, I)
    \/ \E r \in R : generate_download(r)
    \/ \E r \in R : generate_validate(r)
    \/ \E r \in R : generate_video_return(r)
    \/ \E r \in R : generate_text(r)

Next == Step(Reqs, SomeInstructions)

Spec == Init /\ [][Next]_vars

\* one request, its instruction drawn from Instructions
NextPrompt == Step({1}, Instructions)

SpecPrompt == Init /\ [][NextPrompt]_vars

TypeOK ==
    /\ phase \in {"boot", "serving", "aborted"}
    /\ \A r \in Reqs : pc[r] \in {"new", "download", "validate", "generating", "text", "done"}
    /\ \A r \in Reqs : Len(calls[r]) <= 1

-----------------------------------------------------------------------------
(* Properties *)

Carries(detail, msg) == \E i \in 1..Len(detail) : detail[i] = msg

Done(r) == pc[r] = "done"

NotPopulated == model_state.model = None \/ model_state.processor = None

OwnsFile(r) == \E p \in Paths : fs[p].by = r

\* C1: a request whose download fails, or whose downloaded file is missing or
\* empty at validation, is answered 400, never 500; the empty file's message
\* says so.
C1_DownloadFailureIs400 ==
    \A r \in Reqs :
        /\ Done(r)
        /\ \/ hist[r].download \in {"connection_error", "http_error"}
           \/ hist[r].validation \in {"missing", "empty"}
        => /\ resp[r].status = 400
           /\ hist[r].validation = "empty" => Carries(resp[r].detail, "Video file is empty")

\* C2: once a request has its response, no temporary file it created is on disk.
C2_NoTempFileAfterResponse ==
    \A r \in Reqs : Done(r) => ~OwnsFile(r)

\* C3 as stated: a finished request created exactly one temporary file if it
\* carried a video URL, whatever its outcome, and none if it was text-only.
C3_OneFilePerVideoRequest ==
    \A r \in Reqs :
        Done(r) => hist[r].created = (IF request[r].video_url THEN 1 ELSE 0)

\* C3 amended: a request never creates more than one temporary file; a
\* finished request created exactly one if it carried a video URL, passed the
\* readiness check and its fetch got a 2xx response and a temporary file
\* (whether or not the body then streamed completely), and none otherwise:
\* text-only, answered 503, or failed before any file was created.
C3_OneFilePerCreatedDownload ==
    \A r \in Reqs :
        /\ hist[r].created <= 1
        /\ ~request[r].video_url => hist[r].created = 0
        /\ Done(r) =>
             hist[r].created =
               (IF /\ request[r].video_url
                   /\ resp[r].status # 503
                   /\ hist[r].download \in {"ok", "stream_error"}
                THEN 1 ELSE 0)

C3_Witness ==
    \E r \in Reqs :
        /\ Done(r) /\ request[r].video_url
        /\ hist[r].download = "ok" /\ hist[r].created = 1 /\ resp[r].status = 200

\* C4: a request handled while the model or the processor handle is absent is
\* answered 503 and downloads nothing, creates no file and calls no generation.
C4_NotReadyIs503 ==
    \A r \in Reqs :
        pc[r] # "new" /\ NotPopulated
        => /\ Done(r)
           /\ resp[r].status = 503
           /\ hist[r] = NoHist
           /\ video_path[r] = 0
           /\ calls[r] = <<>>
           /\ ~OwnsFile(r)

C4_Witness ==
    \E r \in Reqs : Done(r) /\ request[r].video_url /\ resp[r].status = 503

\* C5 as stated: for the instruction "<video>\nWhat happens?" with a video URL
\* the prompt of the generation call is "<video>\nWhat happens?".
C5_ScenarioPromptSingleNewline ==
    \A r \in Reqs :
        /\ request[r].video_url
        /\ request[r].instruction = ScenarioInstruction
        /\ calls[r] # <<>>
        => calls[r][1].prompt = VIDEO \o NL \o WhatHappens

\* C5 amended: for that request the prompt is "<video>\n\nWhat happens?": the
\* "<video>\n" prefix, then the instruction without its marker, which keeps
\* the instruction's own newline, so two newlines follow the marker.
C5_ScenarioPromptKeepsNewline ==
    \A r \in Reqs :
        /\ request[r].video_url
        /\ request[r].instruction = ScenarioInstruction
        /\ calls[r] # <<>>
        => calls[r][1].prompt = VIDEO \o NL \o NL \o WhatHappens

C5_Witness ==
    \E r \in Reqs :
        /\ request[r].video_url
        /\ request[r].instruction = ScenarioInstruction
        /\ Len(calls[r]) = 1
        /\ calls[r][1].video_file # 0

\* C6: the prompt of a video request holds the marker <video> exactly once, as
\* its leading "<video>\n", and holds no <image> marker.
C6_MarkersNormalized ==
    \A r \in Reqs :
        calls[r] # <<>> /\ calls[r][1].video_file # 0
        => /\ StartsWith(calls[r][1].prompt, VIDEO \o NL)
           /\ Count(calls[r][1].prompt, VIDEO) = 1
           /\ Count(calls[r][1].prompt, IMAGE) = 0

\* C7: every answer of GET /health is a 200 whose model_loaded is true exactly
\* when both handles are present, and whose device is "not loaded" otherwise.
C7_HealthMatchesReadiness ==
    health.status # 0
    => /\ health.status = 200
       /\ health.model_loaded = ~NotPopulated
       /\ NotPopulated => health.device = "not loaded"

C7_Witness ==
    /\ health.status = 200
    /\ health.model_loaded
    /\ \E r \in Reqs : pc[r] # "new" /\ resp[r].status # 503

\* C8: a generation call that raised is answered 500 with the failure's
\* message in the detail, after the temporary file was deleted, and the
\* request made that one call only.
C8_GenerationFailureIs500 ==
    \A r \in Reqs :
        hist[r].generation = "raise"
        => /\ Done(r)
           /\ resp[r].status = 500
           /\ Carries(resp[r].detail, GenerationFailure)
           /\ ~OwnsFile(r)
           /\ Len(calls[r]) = 1

C8_Witness ==
    \E r \in Reqs :
        /\ hist[r].generation = "raise"
        /\ request[r].video_url
        /\ hist[r].created = 1
        /\ resp[r].status = 500

InFlight(r) == pc[r] \in {"validate", "generating"}

\* C9: requests in flight hold distinct paths; a running generation call was
\* given its request's own path and that file exists; and a file is removed or
\* overwritten only by the step in which its own request finishes.
C9_OwnPath ==
    /\ [](\A r1, r2 \in Reqs :
            InFlight(r1) /\ InFlight(r2) /\ r1 # r2 => video_path[r1] # video_path[r2])
    /\ [](\A r \in Reqs :
            pc[r] = "generating"
            => /\ calls[r][1].video_file = video_path[r]
               /\ fs[video_path[r]].by = r)
    /\ [][\A p \in Paths :
            fs[p] # NoFile /\ fs'[p] # fs[p]
            => /\ InFlight(fs[p].by)
               /\ video_path[fs[p].by] = p
               /\ pc'[fs[p].by] = "done"
               /\ fs'[p] = NoFile]_vars

C9_Witness ==
    \E r1, r2 \in Reqs :
        /\ r1 # r2
        /\ pc[r1] = "generating"
        /\ Done(r2) /\ hist[r2].generation # "none" /\ video_path[r2] # 0

\* C10: only the startup routine writes the model session, once, from the
\* empty session to both handles; and after a failed load no request and no
\* health check is ever served.
C10_SessionWrittenOnce ==
    /\ [][model_state' # model_state
            => /\ phase = "boot"
               /\ model_state = [model |-> None, processor |-> None]
               /\ model_state' = [model |-> ModelHandle, processor |-> ProcessorHandle]
               /\ \A r \in Reqs : pc'[r] = pc[r]]_vars
    /\ [](load_result = "failed"
            => /\ phase = "aborted"
               /\ \A r \in Reqs : pc[r] = "new"
               /\ health.status = 0)

C10_Witness ==
    /\ load_result = "ok"
    /\ ~NotPopulated
    /\ health.status = 200
    /\ \A r \in Reqs : Done(r)

====
